---------------------------- MODULE Spec2Model ----------------------------
(***************************************************************************)
(* A model of wrappers/exec_wrapper.py: ExecWrapper (construction, the     *)
(* partition of keyword arguments, exec_proc), CompletedProcess and        *)
(* CompletedProcessError, together with the child process, its pipes and   *)
(* the clock that the code waits on.                                       *)
(*                                                                         *)
(* Strings whose structure the code inspects are sequences: a keyword is a *)
(* sequence of tokens (the prefix 'subprocess_' is one token), process     *)
(* output is a sequence of characters.  Python's None is the string        *)
(* "None"; True and False are "True" and "False".                          *)
(***************************************************************************)
EXTENDS Integers, Sequences, FiniteSets, TLC

VARIABLES
    pc,            \* where the caller / exec_proc stands
    platform,      \* platform.system()
    bin_path,      \* the bin_path argument given to __init__
    bin,           \* self.__bin
    ctor_error,    \* the exception __init__ raised, or None
    kwargs_in,     \* kwargs as the caller passed them to _update_subprocess_params
    kwargs,        \* the caller's kwargs mapping (mutated in place)
    proc_kwargs,   \* self.__proc_kwargs
    cmd,           \* exec_proc's local cmd
    timeout,       \* exec_proc's local timeout
    stream_output, \* exec_proc's local stream_output
    launched,      \* the keyword arguments Popen was called with, or None
    child,         \* the child process: "none", "running", "exited"
    out_open,      \* the child still holds its output descriptors open
    returncode,    \* the child's exit code once it has exited
    written,       \* every character the child wrote, on either descriptor, in order
    wr_out,        \* characters written into the stdout pipe
    wr_err,        \* characters written into the stderr pipe
    rdpos,         \* how many characters of the stdout pipe p.stdout has consumed
    delivered,     \* the arguments of the stream_output calls so far, in order
    killed,        \* p.kill() was called
    waited,        \* p.wait() / p.communicate() returned after the kill
    closed,        \* Popen.__exit__ closed the parent's pipe ends
    exc,           \* the exception in flight or raised by exec_proc, or None
    result,        \* the CompletedProcess exec_proc returned, or None
    error,         \* the CompletedProcessError raise_for_status raised, or None
    message,       \* str(error), or None
    serial,        \* the callers serialize their invocations (two-caller model)
    th             \* two-caller model: each caller's position and locals

vars == << pc, platform, bin_path, bin, ctor_error, kwargs_in, kwargs, proc_kwargs,
           cmd, timeout, stream_output, launched, child, out_open, returncode,
           written, wr_out, wr_err, rdpos, delivered, killed, waited, closed, exc, result,
           error, message, serial, th >>

-----------------------------------------------------------------------------
(* Bounds of the model.                                                     *)
MaxChars == 3      \* characters a child writes during one invocation
MaxKeys == 2       \* keyword arguments of one call in the partition model
MaxOpts == 2       \* process options a caller passes in one call

-----------------------------------------------------------------------------
(* Python values and dict operations.                                       *)
None == "None"

\* truth value of a scalar (an option value, a name)
Truthy(v) == v \notin {"None", "False", ""}

\* a text that is None; a text that is present is a sequence of characters
NoText == << "None" >>

EmptyDict == [k \in {} |-> None]

Put(d, k, v) == [x \in (DOMAIN d) \cup {k} |-> IF x = k THEN v ELSE d[x]]

Del(d, k) == [x \in (DOMAIN d) \ {k} |-> d[x]]

Get(d, k, default) == IF k \in DOMAIN d THEN d[k] ELSE default

RECURSIVE KeyList(_)
KeyList(S) == IF S = {} THEN << >>
              ELSE LET k == CHOOSE x \in S : TRUE IN << k >> \o KeyList(S \ {k})

-----------------------------------------------------------------------------
(* ExecWrapper._update_subprocess_params                                    *)
key_pfx == << "subprocess_" >>

startswith(k, pfx) == Len(k) >= Len(pfx) /\ SubSeq(k, 1, Len(pfx)) = pfx

strip_pfx(k) == SubSeq(k, Len(key_pfx) + 1, Len(k))

\* one iteration of the loop body (lines 36-38) for key k
update_step(k, st) ==
    IF startswith(k, key_pfx)
    THEN [kwargs |-> Del(st.kwargs, k),
          proc_kwargs |-> Put(st.proc_kwargs, strip_pfx(k), st.kwargs[k])]
    ELSE st

RECURSIVE update_loop(_, _)
update_loop(keys, st) ==
    IF keys = << >> THEN st
    ELSE update_loop(Tail(keys), update_step(Head(keys), st))

\* mutant: the reset of line 32 is missing, the options of the last call stay
update_reset_mut(old) == old

update_reset(old) == EmptyDict

\* mutant: the key is stored under its full name, prefix kept
update_subprocess_params_mut(kw, old) ==
    LET pfxd == {k \in DOMAIN kw : startswith(k, key_pfx)} IN
    [kwargs |-> [k \in (DOMAIN kw) \ pfxd |-> kw[k]],
     proc_kwargs |-> [k \in pfxd |-> kw[k]]]

update_subprocess_params(kw, old) ==
    update_loop(KeyList(DOMAIN kw), [kwargs |-> kw, proc_kwargs |-> update_reset(old)])

-----------------------------------------------------------------------------
(* ExecWrapper.__init__                                                     *)

\* shutil.which on the modelled search path: the resolved path, or None
which(name) ==
    CASE name = "git" -> "/usr/bin/git"
      [] OTHER -> None

BinPaths == {"None", "", "git", "helm"}

NoError == [type |-> None, msg |-> None]

NoExc == [type |-> None, stdout |-> << "None" >>, stderr |-> << "None" >>]

Exc(t) == [type |-> t, stdout |-> << "None" >>, stderr |-> << "None" >>]

\* mutant: the emptiness check of line 14 is missing
init_wrapper_mut(name) ==
    IF ~Truthy(which(name))
    THEN [bin |-> None, error |-> [type |-> "RuntimeError", msg |-> "not found"]]
    ELSE [bin |-> which(name), error |-> NoError]

\* what __init__ leaves behind: self.__bin and the exception raised, if any
init_wrapper(name) ==
    IF ~Truthy(name)
    THEN [bin |-> None, error |-> [type |-> "RuntimeError", msg |-> "not set"]]
    ELSE IF ~Truthy(which(name))
    THEN [bin |-> None, error |-> [type |-> "RuntimeError", msg |-> "not found"]]
    ELSE [bin |-> which(name), error |-> NoError]

-----------------------------------------------------------------------------
(* ExecWrapper.exec_proc: the process options, lines 46-57                  *)
PIPE == "PIPE"
STDOUT == "STDOUT"
DEVNULL == "DEVNULL"

set_shell(pk) == Put(pk, << "shell" >>, "True")

set_text(pk) == Put(pk, << "text" >>, "True")

\* mutant: the default replaces a value the caller supplied
default_pipe_mut(pk, name) == Put(pk, << name >>, PIPE)

default_pipe(pk, name) ==
    IF << name >> \in DOMAIN pk THEN pk ELSE Put(pk, << name >>, PIPE)

pop_value(pk, name) == Get(pk, << name >>, None)

\* mutant: the option is read but stays in the mapping
pop_dict_mut(pk, name) == pk

pop_dict(pk, name) == Del(pk, << name >>)

redirect_stderr(pk, so) ==
    IF so # None THEN Put(pk, << "stderr" >>, STDOUT) ELSE pk

\* lines 46-57 as a whole: the options Popen gets and the two locals
exec_options(pk0) ==
    LET pk1 == default_pipe(default_pipe(default_pipe(set_text(set_shell(pk0)),
                                "stdin"), "stdout"), "stderr")
        t == pop_value(pk1, "timeout")
        pk2 == pop_dict(pk1, "timeout")
        so == pop_value(pk2, "stream_output")
        pk3 == pop_dict(pk2, "stream_output")
    IN [proc_kwargs |-> redirect_stderr(pk3, so), timeout |-> t, stream_output |-> so]

-----------------------------------------------------------------------------
(* CompletedProcess and CompletedProcessError                               *)

\* signal.Signals on the modelled platform: the numbers that have a name
Signals == [n \in {2, 9, 15} |->
              CASE n = 2 -> "SIGINT" [] n = 9 -> "SIGKILL" [] n = 15 -> "SIGTERM"]

SIGKILL == 9

\* the codes a child of the model exits with on its own or by a foreign signal
ExitCodes == {-35, -15, 0, 2}

NoResult == [args |-> << >>, return_code |-> 0, stdout |-> NoText, stderr |-> NoText]

CompletedProcess(a, rc, so, se) ==
    [args |-> a, return_code |-> rc, stdout |-> so, stderr |-> se]

\* BaseException stores args as tuple(args): the same elements in the same order
CompletedProcessError(a, rc, so, se) ==
    [args |-> [i \in 1..Len(a) |-> a[i]], return_code |-> rc, stdout |-> so, stderr |-> se]

NoMessage == [kind |-> None, args |-> << >>, num |-> 0, name |-> None, tail |-> << >>]

\* mutant: the captured stderr is appended whenever it is not None
stderr_tail_mut(se) == IF se # NoText THEN << "\n" >> \o se ELSE << >>

\* lines 125-127
stderr_tail(se) == IF se # NoText /\ se # << >> THEN << "\n" >> \o se ELSE << >>

\* CompletedProcessError.__str__: the parts of the message
str_error(e) ==
    IF e.return_code # 0 /\ e.return_code < 0
    THEN IF (- e.return_code) \in DOMAIN Signals
         THEN [kind |-> "died with", args |-> e.args, num |-> - e.return_code,
               name |-> Signals[- e.return_code], tail |-> << >>]
         ELSE [kind |-> "died with unknown signal", args |-> e.args,
               num |-> - e.return_code, name |-> None, tail |-> << >>]
    ELSE [kind |-> "returned non-zero exit status", args |-> e.args,
          num |-> e.return_code, name |-> None, tail |-> stderr_tail(e.stderr)]

\* mutant: only a positive code raises
raises_for_status_mut(res) == res.return_code > 0

\* line 96
raises_for_status(res) == res.return_code # 0

-----------------------------------------------------------------------------
(* The single-caller model: one runner, its invocations one after another,  *)
(* each with its child process.                                             *)

K(name) == << "subprocess_", name >>

\* the value a caller of the model passes for each process option
OptionValue(name) ==
    CASE name = "shell" -> "False"
      [] name = "text" -> "False"
      [] name = "timeout" -> "5"
      [] OTHER -> DEVNULL

OptionNames == {"shell", "text", "stdin", "stdout", "stderr", "timeout", "stream_output"}

StreamValues == {"callback", "False"}

\* the keyword mappings a caller passes in the single-caller model
CallerKwargs ==
    { [k \in {K(n) : n \in D} |->
          IF k = K("stream_output") THEN sv ELSE OptionValue(k[2])] :
      D \in {S \in SUBSET OptionNames : Cardinality(S) <= MaxOpts},
      sv \in StreamValues }

CallerArgs == {<< >>, << "status" >>}

Chars == {"a", "\n"}

Platforms == {"Linux", "Windows"}

NoThreads == [t \in {} |-> None]

\* no invocation under way: exec_proc's locals, the child and the result unset
NoInvocation ==
    /\ kwargs_in = EmptyDict /\ kwargs = EmptyDict
    /\ cmd = << >> /\ timeout = None /\ stream_output = None
    /\ launched = EmptyDict /\ child = "none" /\ out_open = FALSE /\ returncode = 0
    /\ written = << >> /\ wr_out = << >> /\ wr_err = << >> /\ rdpos = 0
    /\ delivered = << >> /\ killed = FALSE /\ waited = FALSE /\ closed = FALSE
    /\ exc = NoExc /\ result = NoResult /\ message = NoMessage

\* before __init__ has run
Init ==
    /\ pc = "new"
    /\ platform \in Platforms
    /\ bin_path = None /\ bin = None /\ ctor_error = NoError
    /\ proc_kwargs = EmptyDict
    /\ error = NoResult
    /\ serial = TRUE
    /\ th = NoThreads
    /\ NoInvocation

\* __init__ (lines 11-21)
Construct(name) ==
    /\ pc = "new"
    /\ LET r == init_wrapper(name) IN
        /\ bin_path' = name
        /\ bin' = r.bin
        /\ ctor_error' = r.error
        /\ pc' = IF r.error = NoError THEN "idle" ELSE "ctor_failed"
    /\ UNCHANGED << platform, kwargs_in, kwargs, proc_kwargs, cmd, timeout,
                    stream_output, launched, child, out_open, returncode, written,
                    wr_out, wr_err, rdpos, delivered, killed, waited, closed, exc,
                    result, error, message, serial, th >>

\* the caller starts an invocation: _update_subprocess_params(kwargs), lines 31-40
Call(kw) ==
    /\ pc = "idle"
    /\ LET r == update_subprocess_params(kw, proc_kwargs) IN
        /\ kwargs_in' = kw
        /\ kwargs' = r.kwargs
        /\ proc_kwargs' = r.proc_kwargs
    /\ pc' = "updated"
    /\ UNCHANGED << platform, bin_path, bin, ctor_error, cmd, timeout, stream_output,
                    launched, child, out_open, returncode, written, wr_out, wr_err,
                    rdpos, delivered, killed, waited, closed, exc, result, error,
                    message, serial, th >>

\* the invocation is over for the caller: exec_proc's locals, the Popen object,
\* the result and the exception go out of scope; the runner keeps its fields
Done ==
    /\ pc \in {"returned", "raised", "status_ok", "status_raised"}
    /\ pc' = "idle"
    /\ kwargs_in' = EmptyDict /\ kwargs' = EmptyDict
    /\ cmd' = << >> /\ timeout' = None /\ stream_output' = None
    /\ launched' = EmptyDict /\ child' = "none" /\ out_open' = FALSE /\ returncode' = 0
    /\ written' = << >> /\ wr_out' = << >> /\ wr_err' = << >> /\ rdpos' = 0
    /\ delivered' = << >> /\ killed' = FALSE /\ waited' = FALSE /\ closed' = FALSE
    /\ exc' = NoExc /\ result' = NoResult /\ error' = NoResult /\ message' = NoMessage
    /\ UNCHANGED << platform, bin_path, bin, ctor_error, proc_kwargs, serial, th >>

\* exec_proc up to the start of the with body (lines 43-61); iterating p.stdout
\* when stdout is not a pipe (p.stdout is None) raises TypeError at line 62
ExecLaunch(a) ==
    /\ pc = "updated"
    /\ LET o == exec_options(proc_kwargs) IN
        /\ cmd' = << bin >> \o a
        /\ proc_kwargs' = o.proc_kwargs
        /\ timeout' = o.timeout
        /\ stream_output' = o.stream_output
        /\ launched' = o.proc_kwargs
        /\ IF Truthy(o.stream_output)
           THEN IF o.proc_kwargs[<< "stdout" >>] = PIPE
                THEN pc' = "stream" /\ exc' = NoExc
                ELSE pc' = "with_exit" /\ exc' = Exc("TypeError")
           ELSE pc' = "communicate" /\ exc' = NoExc
    /\ child' = "running"
    /\ out_open' = TRUE
    /\ UNCHANGED << platform, bin_path, bin, ctor_error, kwargs_in, kwargs, returncode,
                    written, wr_out, wr_err, rdpos, delivered, killed, waited, closed,
                    result, error, message, serial, th >>

-----------------------------------------------------------------------------
(* The child process and its pipes.                                         *)

\* where a write on descriptor fd ends up under the launch options
dest(fd) ==
    LET so == launched[<< "stdout" >>]
        se == launched[<< "stderr" >>]
    IN IF fd = 1 \/ se = STDOUT THEN (IF so = PIPE THEN "out" ELSE "lost")
       ELSE (IF se = PIPE THEN "err" ELSE "lost")

ChildWrite(fd, c) ==
    /\ child = "running" /\ out_open /\ ~closed
    /\ Len(written) < MaxChars
    /\ written' = Append(written, c)
    /\ wr_out' = IF dest(fd) = "out" THEN Append(wr_out, c) ELSE wr_out
    /\ wr_err' = IF dest(fd) = "err" THEN Append(wr_err, c) ELSE wr_err
    /\ UNCHANGED << pc, platform, bin_path, bin, ctor_error, kwargs_in, kwargs,
                    proc_kwargs, cmd, timeout, stream_output, launched, child, out_open,
                    returncode, rdpos, delivered, killed, waited, closed, exc, result,
                    error, message, serial, th >>

\* the child closes its output descriptors and keeps running
ChildCloseOutput ==
    /\ child = "running" /\ out_open
    /\ out_open' = FALSE
    /\ UNCHANGED << pc, platform, bin_path, bin, ctor_error, kwargs_in, kwargs,
                    proc_kwargs, cmd, timeout, stream_output, launched, child,
                    returncode, written, wr_out, wr_err, rdpos, delivered, killed,
                    waited, closed, exc, result, error, message, serial, th >>

\* the child exits on its own (or by a signal that is not the runner's)
ChildExit(code) ==
    /\ child = "running"
    /\ child' = "exited"
    /\ returncode' = code
    /\ out_open' = FALSE
    /\ UNCHANGED << pc, platform, bin_path, bin, ctor_error, kwargs_in, kwargs,
                    proc_kwargs, cmd, timeout, stream_output, launched, written,
                    wr_out, wr_err, rdpos, delivered, killed, waited, closed, exc,
                    result, error, message, serial, th >>

-----------------------------------------------------------------------------
(* exec_proc: the with body and its exit, lines 59-81                       *)

\* the text a pipe hands to the parent: None when the stream is not a pipe
captured(name, text) == IF launched[<< name >>] = PIPE THEN text ELSE NoText

\* the end of the next line of buf after pos as the text-mode iterator of
\* p.stdout finds it: through the first newline, or through the end of the data
\* once the write end is closed; 0 while it has to block or at end of file
next_line_end(buf, pos, eof) ==
    LET nl == {i \in (pos + 1)..Len(buf) : buf[i] = "\n"} IN
    IF nl # {} THEN CHOOSE i \in nl : \A j \in nl : i <= j
    ELSE IF eof /\ pos < Len(buf) THEN Len(buf)
    ELSE 0

\* line.replace('\n', '')
replace_newline(line) == SelectSeq(line, LAMBDA ch : ch # "\n")

\* mutant: the line is handed over as read
callback_arg_mut(line) == line

callback_arg(line) == replace_newline(line)

\* one iteration of the for loop (lines 62-66); the callback returns or raises
StreamLine(raises) ==
    /\ pc = "stream"
    /\ LET e == next_line_end(wr_out, rdpos, ~out_open) IN
        /\ e # 0
        /\ rdpos' = e
        /\ LET line == SubSeq(wr_out, rdpos + 1, e) IN
           IF line = << >>
           THEN pc' = "with_exit" /\ UNCHANGED << delivered, exc >>
           ELSE /\ delivered' = Append(delivered, callback_arg(line))
                /\ IF raises
                   THEN pc' = "with_exit" /\ exc' = Exc("CallbackError")
                   ELSE pc' = "stream" /\ exc' = exc
    /\ UNCHANGED << platform, bin_path, bin, ctor_error, kwargs_in, kwargs, proc_kwargs,
                    cmd, timeout, stream_output, launched, child, out_open, returncode,
                    written, wr_out, wr_err, killed, waited, closed, result, error,
                    message, serial, th >>

\* the iterator of p.stdout is exhausted: the for loop ends
StreamEOF ==
    /\ pc = "stream"
    /\ ~out_open /\ rdpos = Len(wr_out)
    /\ pc' = "with_exit"
    /\ UNCHANGED << platform, bin_path, bin, ctor_error, kwargs_in, kwargs, proc_kwargs,
                    cmd, timeout, stream_output, launched, child, out_open, returncode,
                    written, wr_out, wr_err, rdpos, delivered, killed, waited, closed,
                    exc, result, error, message, serial, th >>

\* p.communicate returns (line 69): the child has exited and its output is read;
\* Popen.__exit__ finds nothing left to wait for and line 81 returns the result
CommunicateDone ==
    /\ pc = "communicate"
    /\ child = "exited"
    /\ closed' = TRUE
    /\ result' = CompletedProcess(cmd, returncode, captured("stdout", wr_out),
                                  captured("stderr", wr_err))
    /\ pc' = "returned"
    /\ UNCHANGED << platform, bin_path, bin, ctor_error, kwargs_in, kwargs, proc_kwargs,
                    cmd, timeout, stream_output, launched, child, out_open, returncode,
                    written, wr_out, wr_err, rdpos, delivered, killed, waited, exc,
                    error, message, serial, th >>

\* the timeout elapses inside p.communicate: TimeoutExpired reaches line 70
CommunicateTimeout ==
    /\ pc = "communicate"
    /\ timeout # None
    /\ child = "running"
    /\ exc' = Exc("TimeoutExpired")
    /\ pc' = "timeout_caught"
    /\ UNCHANGED << platform, bin_path, bin, ctor_error, kwargs_in, kwargs, proc_kwargs,
                    cmd, timeout, stream_output, launched, child, out_open, returncode,
                    written, wr_out, wr_err, rdpos, delivered, killed, waited, closed,
                    result, error, message, serial, th >>

\* any other exception leaves p.communicate: the bare except of line 77
CommunicateFail ==
    /\ pc = "communicate"
    /\ exc' = Exc("OtherError")
    /\ pc' = "other_caught"
    /\ UNCHANGED << platform, bin_path, bin, ctor_error, kwargs_in, kwargs, proc_kwargs,
                    cmd, timeout, stream_output, launched, child, out_open, returncode,
                    written, wr_out, wr_err, rdpos, delivered, killed, waited, closed,
                    result, error, message, serial, th >>

\* the exit code of a child the runner killed
kill_code == IF platform = "Windows" THEN 1 ELSE - SIGKILL

\* mutant: the handler re-raises without killing
kill_mut(next) == pc' = next /\ UNCHANGED << killed, child, returncode, out_open >>

\* p.kill(): a child that still runs dies of it
kill(next) ==
    /\ killed' = TRUE
    /\ IF child = "running"
       THEN child' = "exited" /\ returncode' = kill_code /\ out_open' = FALSE
       ELSE UNCHANGED << child, returncode, out_open >>
    /\ pc' = next

\* line 71
TimeoutKill ==
    /\ pc = "timeout_caught"
    /\ kill("timeout_killed")
    /\ UNCHANGED << platform, bin_path, bin, ctor_error, kwargs_in, kwargs, proc_kwargs,
                    cmd, timeout, stream_output, launched, written, wr_out, wr_err,
                    rdpos, delivered, waited, closed, exc, result, error, message, serial, th >>

\* lines 72-76: p.communicate() on Windows, p.wait() elsewhere, then raise
TimeoutWait ==
    /\ pc = "timeout_killed"
    /\ child = "exited"
    /\ waited' = TRUE
    /\ exc' = IF platform = "Windows"
              THEN [exc EXCEPT !.stdout = captured("stdout", wr_out),
                               !.stderr = captured("stderr", wr_err)]
              ELSE exc
    /\ pc' = "with_exit"
    /\ UNCHANGED << platform, bin_path, bin, ctor_error, kwargs_in, kwargs, proc_kwargs,
                    cmd, timeout, stream_output, launched, child, out_open, returncode,
                    written, wr_out, wr_err, rdpos, delivered, killed, closed, result,
                    error, message, serial, th >>

\* lines 78-79
OtherKill ==
    /\ pc = "other_caught"
    /\ kill("with_exit")
    /\ UNCHANGED << platform, bin_path, bin, ctor_error, kwargs_in, kwargs, proc_kwargs,
                    cmd, timeout, stream_output, launched, written, wr_out, wr_err,
                    rdpos, delivered, waited, closed, exc, result, error, message, serial, th >>

\* Popen.__exit__, first half: the parent's pipe ends are closed
WithExitClose ==
    /\ pc = "with_exit"
    /\ closed' = TRUE
    /\ pc' = "exit_wait"
    /\ UNCHANGED << platform, bin_path, bin, ctor_error, kwargs_in, kwargs, proc_kwargs,
                    cmd, timeout, stream_output, launched, child, out_open, returncode,
                    written, wr_out, wr_err, rdpos, delivered, killed, waited, exc,
                    result, error, message, serial, th >>

\* Popen.__exit__, second half: self.wait() returns once the child has exited;
\* then the exception in flight propagates, or line 81 returns the result
WithExitWait ==
    /\ pc = "exit_wait"
    /\ child = "exited"
    /\ IF exc = NoExc
       THEN /\ result' = CompletedProcess(cmd, returncode, NoText, NoText)
            /\ pc' = "returned"
       ELSE /\ result' = result
            /\ pc' = "raised"
    /\ UNCHANGED << platform, bin_path, bin, ctor_error, kwargs_in, kwargs, proc_kwargs,
                    cmd, timeout, stream_output, launched, child, out_open, returncode,
                    written, wr_out, wr_err, rdpos, delivered, killed, waited, closed,
                    exc, error, message, serial, th >>

\* CompletedProcess.raise_for_status (lines 95-97) and str() of what it raises
RaiseForStatus ==
    /\ pc = "returned"
    /\ IF raises_for_status(result)
       THEN LET e == CompletedProcessError(result.args, result.return_code,
                                           result.stdout, result.stderr) IN
            /\ error' = e
            /\ message' = str_error(e)
            /\ pc' = "status_raised"
       ELSE /\ UNCHANGED << error, message >>
            /\ pc' = "status_ok"
    /\ UNCHANGED << platform, bin_path, bin, ctor_error, kwargs_in, kwargs, proc_kwargs,
                    cmd, timeout, stream_output, launched, child, out_open, returncode,
                    written, wr_out, wr_err, rdpos, delivered, killed, waited, closed,
                    exc, result, serial, th >>

Next ==
    \/ \E name \in BinPaths : Construct(name)
    \/ \E kw \in CallerKwargs : Call(kw)
    \/ \E a \in CallerArgs : ExecLaunch(a)
    \/ \E fd \in {1, 2}, c \in Chars : ChildWrite(fd, c)
    \/ ChildCloseOutput
    \/ \E code \in ExitCodes : ChildExit(code)
    \/ \E raises \in BOOLEAN : StreamLine(raises)
    \/ StreamEOF
    \/ CommunicateDone
    \/ CommunicateTimeout
    \/ CommunicateFail
    \/ TimeoutKill
    \/ TimeoutWait
    \/ OtherKill
    \/ WithExitClose
    \/ WithExitWait
    \/ RaiseForStatus
    \/ Done

Spec == Init /\ [][Next]_vars

-----------------------------------------------------------------------------
(* Properties of the single-caller model.                                   *)

AfterLaunch == pc \notin {"new", "ctor_failed", "idle", "updated"}

Finished == pc \in {"returned", "status_ok", "status_raised"}

Streaming == AfterLaunch /\ Truthy(stream_output)

Blocking == AfterLaunch /\ ~Truthy(stream_output)

Abs(n) == IF n < 0 THEN - n ELSE n

IsPrefix(s, t) == Len(s) <= Len(t) /\ SubSeq(t, 1, Len(s)) = s

\* the lines of a text, terminators dropped: one per newline, plus the
\* unterminated rest if there is one
RECURSIVE Lines(_, _, _)
Lines(text, cur, acc) ==
    IF text = << >> THEN (IF cur = << >> THEN acc ELSE Append(acc, cur))
    ELSE IF Head(text) = "\n" THEN Lines(Tail(text), << >>, Append(acc, cur))
    ELSE Lines(Tail(text), Append(cur, Head(text)), acc)

\* C1: in blocking mode, once the timeout has elapsed on a running child,
\* exec_proc can only end by raising TimeoutExpired, never by returning a
\* result; p.kill() and the wait have both happened and the child has exited
\* before the error reaches the caller.
C1_TimeoutKillsThenRaises ==
    exc.type = "TimeoutExpired" =>
        /\ Blocking
        /\ pc \in {"timeout_caught", "timeout_killed", "with_exit", "exit_wait", "raised"}
        /\ result = NoResult
        /\ pc \in {"with_exit", "exit_wait", "raised"} =>
               killed /\ waited /\ child = "exited"

C1_Witness ==
    /\ pc = "raised" /\ exc.type = "TimeoutExpired"
    /\ platform = "Linux" /\ returncode = - SIGKILL /\ killed /\ waited

C3_OptIn ==
    /\ (error # NoResult) => pc = "status_raised"
    /\ Finished => result.return_code = returncode /\ result.args = cmd
    /\ pc = "status_ok" => result.return_code = 0
    /\ pc = "status_raised" =>
           /\ result.return_code # 0
           /\ error.args = result.args /\ error.return_code = result.return_code
           /\ error.stdout = result.stdout /\ error.stderr = result.stderr

\* C3 (as amended): exit-code failure is opt-in, and the message of the error
\* raised carries the exit code when it is positive and the signal number, the
\* code's absolute value, when it is negative.
C3_StatusCheck ==
    /\ C3_OptIn
    /\ pc = "status_raised" => message.num = Abs(error.return_code)

\* C3 (as claimed): ... and the message contains the exit code.
C3_AsClaimed ==
    /\ C3_OptIn
    /\ pc = "status_raised" => message.num = error.return_code

C3_Witness ==
    /\ pc = "status_raised" /\ error.return_code < 0
    /\ message.num = - error.return_code

PipeDefault(name) == IF name \in {"shell", "text"} THEN "True" ELSE PIPE

Passed(name) == K(name) \in DOMAIN kwargs_in

\* C5 (as amended): the process is always launched with shell and text True,
\* whatever the caller passed; stdin and stdout are the caller's value when one
\* was passed and a pipe otherwise; stderr is STDOUT whenever a stream_output
\* other than None was passed (also a false one, which does not select
\* streaming mode), and else the caller's value or a pipe.
C5_Defaults ==
    AfterLaunch =>
        /\ launched[<< "shell" >>] = "True" /\ launched[<< "text" >>] = "True"
        /\ \A n \in {"stdin", "stdout"} :
               launched[<< n >>] = IF Passed(n) THEN kwargs_in[K(n)] ELSE PIPE
        /\ launched[<< "stderr" >>] =
               IF Passed("stream_output") /\ kwargs_in[K("stream_output")] # None
               THEN STDOUT
               ELSE IF Passed("stderr") THEN kwargs_in[K("stderr")] ELSE PIPE

\* C5 (as claimed): each of shell, text, stdin, stdout, stderr is the caller's
\* value when one was passed and the default otherwise, except that stderr is
\* STDOUT when a stream callback is set.
C5_AsClaimed ==
    AfterLaunch =>
        \A n \in {"shell", "text", "stdin", "stdout", "stderr"} :
            launched[<< n >>] =
                IF n = "stderr" /\ Streaming THEN STDOUT
                ELSE IF Passed(n) THEN kwargs_in[K(n)] ELSE PipeDefault(n)

C5_Witness ==
    /\ pc = "communicate"
    /\ Passed("shell") /\ kwargs_in[K("shell")] = "False"
    /\ launched[<< "shell" >>] = "True"
    /\ Passed("stdin") /\ launched[<< "stdin" >>] = DEVNULL

\* C6 (as claimed), for the exit paths on which a failure is in flight (the
\* timeout, any other failure during the wait, a failure raised by the stream
\* callback): when the failure reaches the caller the child has exited and the
\* pipes are closed; a failure other than the timeout is re-raised after the
\* kill; and exec_proc never waits, on its way out, for a child that still runs
\* and that it has not killed.
C6_AsClaimed ==
    LET failing == exc.type \in {"TimeoutExpired", "OtherError", "CallbackError"} IN
    /\ (pc = "raised" /\ failing) => child = "exited" /\ closed
    /\ (pc \in {"with_exit", "exit_wait", "raised"} /\ exc.type = "OtherError") => killed
    /\ (pc = "exit_wait" /\ failing) => (child = "exited" \/ killed)

OtherFailures ==
    {init_wrapper(n).error : n \in {m \in BinPaths :
        init_wrapper(m).error # NoError /\ Truthy(m) # Truthy(bin_path)}}

C10_StreamingIgnoresTimeout ==
    Streaming =>
        /\ << "timeout" >> \notin DOMAIN launched
        /\ timeout = Get(kwargs_in, K("timeout"), None)
        /\ exc.type # "TimeoutExpired" /\ ~killed
        /\ (pc # "stream" /\ exc = NoExc) => ~out_open
        /\ (Finished \/ pc = "raised") => child = "exited"

C10_Witness ==
    /\ Streaming /\ pc = "stream" /\ timeout = "5"
    /\ child = "running" /\ out_open
    /\ written # << >> /\ rdpos = Len(wr_out)

-----------------------------------------------------------------------------
(* The message model: CompletedProcessError.__str__ on error values.        *)

ErrorCodes == {-35, -33, -15, -9, -2, 0, 1, 2}

ErrorTexts == {NoText, << >>, << "a" >>, << "a", "\n" >>}

ErrorValues ==
    { CompletedProcessError(<< "/usr/bin/git" >> \o a, rc, so, se) :
        a \in CallerArgs, rc \in ErrorCodes, so \in {NoText, << "a" >>},
        se \in ErrorTexts }

\* a runner built for git; some CompletedProcessError exists
InitErr ==
    /\ pc = "error"
    /\ platform = "Linux"
    /\ bin_path = "git" /\ bin = which("git") /\ ctor_error = NoError
    /\ proc_kwargs = EmptyDict
    /\ error \in ErrorValues
    /\ serial = TRUE
    /\ th = NoThreads
    /\ NoInvocation

\* str(error), lines 116-130
Format ==
    /\ pc = "error"
    /\ message' = str_error(error)
    /\ pc' = "formatted"
    /\ UNCHANGED << platform, bin_path, bin, ctor_error, kwargs_in, kwargs, proc_kwargs,
                    cmd, timeout, stream_output, launched, child, out_open, returncode,
                    written, wr_out, wr_err, rdpos, delivered, killed, waited, closed,
                    exc, result, error, serial, th >>

NextErr == Format

SpecErr == InitErr /\ [][NextErr]_vars

\* C8: the message is chosen by the exit code: a negative code whose absolute
\* value is a known signal number reports the signal's name; a negative code
\* whose absolute value is no signal number reports an unknown signal with that
\* number; every other code reports the exit status number, followed by a
\* newline and stderr exactly when stderr is present and not empty.  One of the
\* three messages is always built.
C8_MessageByExitCode ==
    pc = "formatted" =>
        LET rc == error.return_code IN
        /\ message.kind \in {"died with", "died with unknown signal",
                              "returned non-zero exit status"}
        /\ message.args = error.args
        /\ (rc < 0 /\ (- rc) \in DOMAIN Signals) <=> message.kind = "died with"
        /\ (rc < 0 /\ (- rc) \notin DOMAIN Signals) <=>
               message.kind = "died with unknown signal"
        /\ message.kind = "died with" =>
               message.name = Signals[- rc] /\ message.num = - rc /\ message.tail = << >>
        /\ message.kind = "died with unknown signal" =>
               message.num = - rc /\ message.tail = << >>
        /\ message.kind = "returned non-zero exit status" =>
               /\ message.num = rc
               /\ message.tail = IF error.stderr \in {NoText, << >>} THEN << >>
                                 ELSE << "\n" >> \o error.stderr

C8_Witness ==
    /\ pc = "formatted" /\ error.return_code = -15
    /\ message.kind = "died with" /\ message.name = "SIGTERM"

-----------------------------------------------------------------------------
(* The partition model: _update_subprocess_params on arbitrary keywords.    *)

KeyTokens == {"subprocess_", "subprocess", "cwd"}

\* keywords of the model: one token, the prefix before a token, and two
\* keywords that hold the prefix or its first word elsewhere
KeyNames == { << a >> : a \in KeyTokens } \cup
            { << "subprocess_", b >> : b \in KeyTokens } \cup
            { << "cwd", "subprocess_" >>, << "subprocess", "cwd" >> }

KeyValues == {"1", "2"}

PartitionKwargs ==
    UNION { [D -> KeyValues] : D \in {S \in SUBSET KeyNames : Cardinality(S) <= MaxKeys} }

\* a runner built for git, no invocation made yet
InitParams ==
    /\ pc = "idle"
    /\ platform = "Linux"
    /\ bin_path = "git" /\ bin = which("git") /\ ctor_error = NoError
    /\ proc_kwargs = EmptyDict
    /\ error = NoResult
    /\ serial = TRUE
    /\ th = NoThreads
    /\ NoInvocation

\* exec_proc seen from the options only (lines 43-57): what it leaves in
\* self.__proc_kwargs for the next call to find
ExecOptions ==
    /\ pc = "updated"
    /\ proc_kwargs' = exec_options(proc_kwargs).proc_kwargs
    /\ pc' = "idle"
    /\ UNCHANGED << platform, bin_path, bin, ctor_error, kwargs_in, kwargs, cmd,
                    timeout, stream_output, launched, child, out_open, returncode,
                    written, wr_out, wr_err, rdpos, delivered, killed, waited, closed,
                    exc, result, error, message, serial, th >>

NextParams ==
    \/ \E kw \in PartitionKwargs : Call(kw)
    \/ ExecOptions

SpecParams == InitParams /\ [][NextParams]_vars

Prefixed(kw) == {k \in DOMAIN kw : startswith(k, key_pfx)}

\* what C4 says of the prefixed keys, of the caller's mapping and of the
\* rebuilding of the process options
C4_Moved ==
    /\ \A k \in Prefixed(kwargs_in) :
           /\ k \notin DOMAIN kwargs
           /\ Tail(k) \in DOMAIN proc_kwargs
           /\ proc_kwargs[Tail(k)] = kwargs_in[k]
    /\ \A k \in (DOMAIN kwargs_in) \ Prefixed(kwargs_in) :
           k \in DOMAIN kwargs /\ kwargs[k] = kwargs_in[k]
    /\ DOMAIN kwargs \subseteq DOMAIN kwargs_in
    /\ \A p \in DOMAIN proc_kwargs : \E k \in Prefixed(kwargs_in) : p = Tail(k)

\* C4 (as amended): after _update_subprocess_params every prefixed key has left
\* the caller's mapping and is in the process options under its name without
\* the prefix, with its value; every other key stays with its value; the
\* process options hold nothing else, whatever they held before; and a key
\* without the prefix is a key of the process options only when the call also
\* carried that key with the prefix.
C4_Partition ==
    pc = "updated" =>
        /\ C4_Moved
        /\ \A k \in (DOMAIN kwargs_in) \ Prefixed(kwargs_in) :
               k \in DOMAIN proc_kwargs => (key_pfx \o k) \in DOMAIN kwargs_in

\* C4 (as claimed): ... and no key without the prefix appears in the process
\* options.
C4_AsClaimed ==
    pc = "updated" =>
        /\ C4_Moved
        /\ \A k \in (DOMAIN kwargs_in) \ Prefixed(kwargs_in) : k \notin DOMAIN proc_kwargs

C4_Witness ==
    /\ pc = "updated"
    /\ \E k \in DOMAIN kwargs : k \in DOMAIN proc_kwargs /\ kwargs[k] # proc_kwargs[k]

-----------------------------------------------------------------------------
(* The two-caller model: two threads invoke the same runner, each running   *)
(* _update_subprocess_params and then exec_proc up to Popen, one statement   *)
(* at a time, on the one self.__proc_kwargs.                                *)

Threads == {1, 2}

ThreadOptions == {"cwd", "timeout", "stream_output"}

\* each caller passes values of its own
ThreadValue(t, name) ==
    CASE name = "cwd" -> IF t = 1 THEN "/a" ELSE "/b"
      [] name = "timeout" -> IF t = 1 THEN "5" ELSE "7"
      [] OTHER -> IF t = 1 THEN "callback1" ELSE "callback2"

ThreadKwargs(t) ==
    { [k \in {K(n) : n \in D} |-> ThreadValue(t, k[2])] : D \in SUBSET ThreadOptions }

\* a runner built for git; each caller about to make its call
InitConc ==
    /\ pc = "idle"
    /\ platform = "Linux"
    /\ bin_path = "git" /\ bin = which("git") /\ ctor_error = NoError
    /\ proc_kwargs = EmptyDict
    /\ error = NoResult
    /\ serial \in BOOLEAN
    /\ \E kw1 \in ThreadKwargs(1), kw2 \in ThreadKwargs(2) :
           th = [t \in Threads |->
                   [pc |-> "call", kwargs_in |-> IF t = 1 THEN kw1 ELSE kw2,
                    kwargs |-> IF t = 1 THEN kw1 ELSE kw2, todo |-> << >>,
                    timeout |-> None, stream_output |-> None, launched |-> EmptyDict]]
    /\ NoInvocation

MainIdle ==
    UNCHANGED << pc, platform, bin_path, bin, ctor_error, kwargs_in, kwargs, cmd,
                 timeout, stream_output, launched, child, out_open, returncode,
                 written, wr_out, wr_err, rdpos, delivered, killed, waited, closed,
                 exc, result, error, message, serial >>

\* callers that serialize their invocations start one only when no other is
\* under way
MayStart(t) ==
    serial => \A u \in Threads \ {t} : th[u].pc \in {"call", "done"}

\* line 32
T_Reset(t) ==
    /\ th[t].pc = "call"
    /\ MayStart(t)
    /\ proc_kwargs' = update_reset(proc_kwargs)
    /\ th' = [th EXCEPT ![t].pc = "loop", ![t].todo = KeyList(DOMAIN th[t].kwargs)]
    /\ MainIdle

\* lines 35-38, one iteration
T_Loop(t) ==
    /\ th[t].pc = "loop"
    /\ th[t].todo # << >>
    /\ LET r == update_step(Head(th[t].todo),
                            [kwargs |-> th[t].kwargs, proc_kwargs |-> proc_kwargs]) IN
        /\ proc_kwargs' = r.proc_kwargs
        /\ th' = [th EXCEPT ![t].kwargs = r.kwargs, ![t].todo = Tail(th[t].todo)]
    /\ MainIdle

\* line 40, and exec_proc entered (lines 43-44)
T_LoopEnd(t) ==
    /\ th[t].pc = "loop"
    /\ th[t].todo = << >>
    /\ th' = [th EXCEPT ![t].pc = "line46"]
    /\ UNCHANGED proc_kwargs
    /\ MainIdle

\* line 46
T_Shell(t) ==
    /\ th[t].pc = "line46"
    /\ proc_kwargs' = set_shell(proc_kwargs)
    /\ th' = [th EXCEPT ![t].pc = "line47"]
    /\ MainIdle

\* line 47
T_Text(t) ==
    /\ th[t].pc = "line47"
    /\ proc_kwargs' = set_text(proc_kwargs)
    /\ th' = [th EXCEPT ![t].pc = "line48"]
    /\ MainIdle

\* lines 48-49, 50-51, 52-53
T_Default(t) ==
    /\ th[t].pc \in {"line48", "line50", "line52"}
    /\ LET at == th[t].pc
           name == CASE at = "line48" -> "stdin" [] at = "line50" -> "stdout"
                     [] OTHER -> "stderr"
           next == CASE at = "line48" -> "line50" [] at = "line50" -> "line52"
                     [] OTHER -> "line54"
       IN /\ proc_kwargs' = default_pipe(proc_kwargs, name)
          /\ th' = [th EXCEPT ![t].pc = next]
    /\ MainIdle

\* line 54
T_PopTimeout(t) ==
    /\ th[t].pc = "line54"
    /\ th' = [th EXCEPT ![t].pc = "line55",
                         ![t].timeout = pop_value(proc_kwargs, "timeout")]
    /\ proc_kwargs' = pop_dict(proc_kwargs, "timeout")
    /\ MainIdle

\* line 55
T_PopStream(t) ==
    /\ th[t].pc = "line55"
    /\ th' = [th EXCEPT ![t].pc = "line56",
                         ![t].stream_output = pop_value(proc_kwargs, "stream_output")]
    /\ proc_kwargs' = pop_dict(proc_kwargs, "stream_output")
    /\ MainIdle

\* lines 56-57
T_Redirect(t) ==
    /\ th[t].pc = "line56"
    /\ proc_kwargs' = redirect_stderr(proc_kwargs, th[t].stream_output)
    /\ th' = [th EXCEPT ![t].pc = "line59"]
    /\ MainIdle

\* line 59: Popen(..., **self.__proc_kwargs)
T_Popen(t) ==
    /\ th[t].pc = "line59"
    /\ th' = [th EXCEPT ![t].pc = "with", ![t].launched = proc_kwargs]
    /\ UNCHANGED proc_kwargs
    /\ MainIdle

\* lines 60-81: the process runs and exec_proc hands control back
T_Finish(t) ==
    /\ th[t].pc = "with"
    /\ th' = [th EXCEPT ![t].pc = "done"]
    /\ UNCHANGED proc_kwargs
    /\ MainIdle

NextConc ==
    \E t \in Threads :
        \/ T_Reset(t)
        \/ T_Loop(t)
        \/ T_LoopEnd(t)
        \/ T_Shell(t)
        \/ T_Text(t)
        \/ T_Default(t)
        \/ T_PopTimeout(t)
        \/ T_PopStream(t)
        \/ T_Redirect(t)
        \/ T_Popen(t)
        \/ T_Finish(t)

SpecConc == InitConc /\ [][NextConc]_vars

\* the options of a call's own: what the call passed, the defaults elsewhere
OwnLaunch(kw) ==
    [k \in {<< "shell" >>, << "text" >>, << "stdin" >>, << "stdout" >>, << "stderr" >>}
            \cup (IF K("cwd") \in DOMAIN kw THEN {<< "cwd" >>} ELSE {}) |->
        CASE k = << "cwd" >> -> kw[K("cwd")]
          [] k \in {<< "shell" >>, << "text" >>} -> "True"
          [] k = << "stderr" >> ->
                IF K("stream_output") \in DOMAIN kw THEN STDOUT ELSE PIPE
          [] OTHER -> PIPE]

Launched(t) == th[t].pc \in {"with", "done"}

\* C9: when the callers serialize their invocations every process is launched
\* with the options of its own invocation, its timeout and its callback; (the
\* witness) when they do not, an invocation can launch with the working
\* directory passed to the other one and without its own timeout.
C9_SerializedOwnOptions ==
    serial =>
        \A t \in Threads : Launched(t) =>
            /\ th[t].launched = OwnLaunch(th[t].kwargs_in)
            /\ th[t].timeout = Get(th[t].kwargs_in, K("timeout"), None)
            /\ th[t].stream_output = Get(th[t].kwargs_in, K("stream_output"), None)

C9_Witness ==
    /\ ~serial
    /\ \E t \in Threads : \E u \in Threads \ {t} :
           /\ Launched(t)
           /\ K("cwd") \in DOMAIN th[u].kwargs_in
           /\ << "cwd" >> \in DOMAIN th[t].launched
           /\ th[t].launched[<< "cwd" >>] = th[u].kwargs_in[K("cwd")]
           /\ K("timeout") \in DOMAIN th[t].kwargs_in
           /\ th[t].timeout = None

=============================================================================
